---------------------------- MODULE Spec2Model ----------------------------
(***************************************************************************)
(* Forensic Verification Engine: the case store (FileSystemMCP), the       *)
(* evidence providers (SearchMCP), the orchestrator and risk scorer        *)
(* (ForensicAgent), the HTTP entry point (api.py) and the browser clients  *)
(* (apiService.ts, geminiService.ts, App.tsx).                             *)
(***************************************************************************)
EXTENDS Integers, Sequences, FiniteSets, TLC

(***************************************************************************)
(* Bounds of the model.                                                    *)
(***************************************************************************)
MaxDomainChecks == 3
MaxScamChecks == 1
MaxRegistryChecks == 1
MaxChecks == 3
MaxCalls == 2
MaxAppends == 3
MaxUrls == 2

(***************************************************************************)
(* Program constants (ForensicAgent._analyze_evidence).                    *)
(***************************************************************************)
NoneAge == -1
NoDataPoints == 50
VeryNewDays == 30
VeryNewPoints == 30
RelativelyNewDays == 365
RelativelyNewPoints == 15
HighRiskPoints == 40
MatchesPoints == 20
NotRegisteredPoints == 25
ScoreCap == 100
ScamThreshold == 70
SuspiciousThreshold == 40

None == "None"

\* the requests, named in the order in which the server accepts them
Cases == {"A", "B"}
First == "A"

VARIABLES
  files,             \* FileSystemMCP: the case files on disk, by case id
  current_case_file, \* FileSystemMCP.current_case_file of the one shared agent
  running,           \* the coroutine the event loop is running, or None
  pc,                \* per request: where ForensicAgent.investigate stands
  extracted_data,    \* per request: ImageProcessor.process_image's result
  i,                 \* per request: position of _gather_evidence in its loops
  results,           \* per request: the results dict of the check in flight
  evidence,          \* per request: the evidence dict of _gather_evidence
  analysis,          \* per request: what _analyze_evidence returned
  report,            \* per request: the final_report returned to the caller
  error,             \* per request: the exception that reached the caller
  config,            \* config.py: which provider URLs the environment sets
  expired,           \* per request: MAX_PROCESSING_TIME has passed since start_time
  sc_phase,        \* harnesses: "off" | "input" | "scored" | "rescored" | "narrated"
  sc_evidence,     \* scorer harness: the evidence dict handed to _analyze_evidence
  sc_extracted,    \* scorer harness: the extracted_data handed to _analyze_evidence
  sc_analysis,     \* scorer harness: what _analyze_evidence returned
  sc_llm,          \* narrator harness: what the two LLM providers do when called
  v_score,         \* verdict ladder harness: the capped risk_score
  v_verdict,       \* verdict ladder harness: the verdict chosen for v_score
  gauge,           \* gauge harness: what RiskGauge renders for v_score
  app,             \* browser: which App.tsx is loaded, "root" or "frontend"
  state,           \* browser: the AnalysisState of App (useState)
  lastResult,      \* browser: the lastResult of the root App (useState)
  calls            \* browser: the submissions made, each with its pending promise

scorerVars == <<sc_phase, sc_evidence, sc_extracted, sc_analysis, sc_llm>>
ladderVars == <<v_score, v_verdict, gauge>>
uiVars == <<app, state, lastResult, calls>>
storeVars == <<files, current_case_file>>
caseVars == <<pc, extracted_data, i, results, evidence, analysis, report, error>>
engineVars == <<files, current_case_file, running,
                pc, extracted_data, i, results, evidence, analysis, report, error, config,
                expired>>
vars == <<files, current_case_file, running,
          pc, extracted_data, i, results, evidence, analysis, report, error, config,
          expired,
          sc_phase, sc_evidence, sc_extracted, sc_analysis, sc_llm, v_score, v_verdict, gauge,
          app, state, lastResult, calls>>

(***************************************************************************)
(* Identifiers and text. An identifier is <<owner, kind, n, form>>: the    *)
(* flyer it was printed on, its type, a number and the way it is written.  *)
(* A text is a sequence of tokens;                                         *)
(* Blank is a whitespace token, Word any other word.                       *)
(***************************************************************************)
NoId == <<>>
Blank == <<"-", "blank", 0, "bare">>
Word == <<"-", "word", 0, "bare">>

\* str.strip(): drops leading and trailing whitespace
RECURSIVE LStrip(_)
LStrip(text) ==
  IF text # <<>> /\ Head(text) = Blank THEN LStrip(Tail(text)) ELSE text

RECURSIVE RStrip(_)
RStrip(text) ==
  IF text # <<>> /\ text[Len(text)] = Blank
  THEN RStrip(SubSeq(text, 1, Len(text) - 1)) ELSE text

Strip(text) == RStrip(LStrip(text))

(***************************************************************************)
(* Generic helpers.                                                        *)
(***************************************************************************)
Min(a, b) == IF a < b THEN a ELSE b

SeqsUpTo(S, n) == UNION {[1..k -> S] : k \in 0..n}

RECURSIVE SumSeq(_)
SumSeq(s) == IF s = <<>> THEN 0 ELSE Head(s) + SumSeq(Tail(s))

\* the lists of a list, joined in order
RECURSIVE Concat(_)
Concat(s) == IF s = <<>> THEN <<>> ELSE Head(s) \o Concat(Tail(s))

(***************************************************************************)
(* Risk factors: the f-strings of _analyze_evidence, kept as records of    *)
(* the text and the value interpolated into it.                            *)
(***************************************************************************)
Factor(text, age, identifier) == [text |-> text, age |-> age, identifier |-> identifier]

NoDataFactor == Factor("WARNING: Unable to extract any contact information", NoneAge, NoId)

(***************************************************************************)
(* ForensicAgent._analyze_evidence, rule by rule.                          *)
(***************************************************************************)
\* a test of the text alone, whatever the identifier lists hold
NoTextExtracted(xd) ==
  \/ Strip(xd.raw_text) = <<>>
  \/ Strip(xd.raw_text) = <<Blank>>

\* raw_text = extracted_data.get('raw_text', '').strip()
NoDataExtracted(xd) ==
  \/ Strip(xd.raw_text) = <<>>
  \/ Strip(xd.raw_text) = <<Blank>>
  \/ /\ xd.extracted.phone_numbers = <<>>
     /\ xd.extracted.emails = <<>>
     /\ xd.extracted.urls = <<>>
     /\ xd.extracted.domains = <<>>

\* the age bands with their upper ends included
DomainPointsInclusive(domain_check) ==
  IF domain_check.age_days # NoneAge
  THEN IF domain_check.age_days <= VeryNewDays THEN VeryNewPoints
       ELSE IF domain_check.age_days <= RelativelyNewDays THEN RelativelyNewPoints
       ELSE 0
  ELSE 0

DomainPoints(domain_check) ==
  IF domain_check.age_days # NoneAge
  THEN IF domain_check.age_days < VeryNewDays THEN VeryNewPoints
       ELSE IF domain_check.age_days < RelativelyNewDays THEN RelativelyNewPoints
       ELSE 0
  ELSE 0

DomainFactors(domain_check) ==
  IF domain_check.age_days # NoneAge
  THEN IF domain_check.age_days < VeryNewDays
       THEN <<Factor("Domain is very new", domain_check.age_days, NoId)>>
       ELSE IF domain_check.age_days < RelativelyNewDays
       THEN <<Factor("Domain is relatively new", domain_check.age_days, NoId)>>
       ELSE <<>>
  ELSE <<>>

\* a scorer with two ifs in place of if / elif
ScamPointsBoth(scam_check) ==
  (IF scam_check.risk_level = "high" THEN HighRiskPoints ELSE 0)
  + (IF scam_check.matches # <<>> THEN MatchesPoints ELSE 0)

ScamPoints(scam_check) ==
  IF scam_check.risk_level = "high" THEN HighRiskPoints
  ELSE IF scam_check.matches # <<>> THEN MatchesPoints
  ELSE 0

ScamFactors(scam_check) ==
  IF scam_check.risk_level = "high"
  THEN <<Factor("High risk match in scam database", NoneAge, scam_check.identifier)>>
  ELSE IF scam_check.matches # <<>>
  THEN <<Factor("Suspicious patterns found", NoneAge, scam_check.identifier)>>
  ELSE <<>>

RegistryPoints(registry_check) ==
  IF ~registry_check.registered THEN NotRegisteredPoints ELSE 0

RegistryFactors(registry_check) ==
  IF ~registry_check.registered
  THEN <<Factor("Organization not found in official registry", NoneAge, NoId)>>
  ELSE <<>>

\* a score that leaves the registry rule out once a scam item has counted
RawScoreScamFirst(ev, xd) ==
  LET scam == SumSeq([k \in 1..Len(ev.scam_checks) |-> ScamPoints(ev.scam_checks[k])])
  IN (IF NoDataExtracted(xd) THEN NoDataPoints ELSE 0)
     + SumSeq([k \in 1..Len(ev.domain_checks) |-> DomainPoints(ev.domain_checks[k])])
     + scam
     + (IF scam > 0 THEN 0
        ELSE SumSeq([k \in 1..Len(ev.registry_checks) |->
                       RegistryPoints(ev.registry_checks[k])]))

\* the value of risk_score just before the cap
RawScore(ev, xd) ==
  (IF NoDataExtracted(xd) THEN NoDataPoints ELSE 0)
  + SumSeq([k \in 1..Len(ev.domain_checks) |-> DomainPoints(ev.domain_checks[k])])
  + SumSeq([k \in 1..Len(ev.scam_checks) |-> ScamPoints(ev.scam_checks[k])])
  + SumSeq([k \in 1..Len(ev.registry_checks) |-> RegistryPoints(ev.registry_checks[k])])

\* the accumulated score, returned as it is
Uncapped(risk_score) == risk_score

CapScore(risk_score) == Min(risk_score, ScoreCap)

\* a ladder whose boundary values fall into the lower category
StrictLadder(risk_score) ==
  IF risk_score > ScamThreshold THEN "scam"
  ELSE IF risk_score > SuspiciousThreshold THEN "suspicious"
  ELSE "safe"

DetermineVerdict(risk_score) ==
  IF risk_score >= ScamThreshold THEN "scam"
  ELSE IF risk_score >= SuspiciousThreshold THEN "suspicious"
  ELSE "safe"

\* a list of factors kept in the order the gatherer makes its checks: the
\* scam items before the domain items
RiskFactorsScamFirst(ev, xd) ==
  (IF NoDataExtracted(xd) THEN <<NoDataFactor>> ELSE <<>>)
  \o Concat([k \in 1..Len(ev.scam_checks) |-> ScamFactors(ev.scam_checks[k])])
  \o Concat([k \in 1..Len(ev.domain_checks) |-> DomainFactors(ev.domain_checks[k])])
  \o Concat([k \in 1..Len(ev.registry_checks) |-> RegistryFactors(ev.registry_checks[k])])

RiskFactors(ev, xd) ==
  (IF NoDataExtracted(xd) THEN <<NoDataFactor>> ELSE <<>>)
  \o Concat([k \in 1..Len(ev.domain_checks) |-> DomainFactors(ev.domain_checks[k])])
  \o Concat([k \in 1..Len(ev.scam_checks) |-> ScamFactors(ev.scam_checks[k])])
  \o Concat([k \in 1..Len(ev.registry_checks) |-> RegistryFactors(ev.registry_checks[k])])

NoSummary == [by |-> None, verdict |-> None, factors |-> 0]

\* what the call of one LLM provider can do: there is no client (its API
\* key is not set), the call returns a text, or it raises
ProviderOutcomes == {"no_client", "text", "raises"}

\* the two providers of _generate_summary: Gemini (self.gemini_model) and
\* OpenAI (self.client)
Llm(gemini, openai) == [gemini |-> gemini, openai |-> openai]
NoLlm == Llm(None, None)
AllLlmOutcomes == [gemini : ProviderOutcomes, openai : ProviderOutcomes]

\* the outcomes a request of the engine meets: Gemini answers, or both
\* providers raise (the narrator harness goes through all nine)
LlmOutcomes == {Llm("text", "no_client"), Llm("raises", "raises")}

Summary(by, risk_factors, verdict) ==
  [by |-> by, verdict |-> verdict, factors |-> Len(risk_factors)]

\* a generator that asks OpenAI before Gemini
generate_summary_openai_first(ev, risk_factors, verdict, llm) ==
  IF llm.openai = "text" THEN Summary("openai", risk_factors, verdict)
  ELSE IF llm.gemini = "text" THEN Summary("gemini", risk_factors, verdict)
  ELSE Summary("fallback", risk_factors, verdict)

\* _generate_summary: Gemini's text, else OpenAI's text, else the fallback
\* summary made of the verdict and the number of risk factors
generate_summary(ev, risk_factors, verdict, llm) ==
  IF llm.gemini = "text" THEN Summary("gemini", risk_factors, verdict)
  ELSE IF llm.openai = "text" THEN Summary("openai", risk_factors, verdict)
  ELSE Summary("fallback", risk_factors, verdict)

\* recommendations that grow with the score and the number of factors
generate_recommendations_scored(verdict, risk_score, risk_factors) ==
  (IF verdict = "scam" THEN <<"DO NOT proceed with this resource">>
   ELSE IF verdict = "suspicious" THEN <<"Exercise extreme caution">>
   ELSE <<"Resource appears legitimate, but always verify independently">>)
  \o (IF risk_score >= 50 \/ Len(risk_factors) >= 2
      THEN <<"Verify through multiple independent sources">> ELSE <<>>)

generate_recommendations(verdict, risk_score, risk_factors) ==
  IF verdict = "scam"
  THEN <<"DO NOT proceed with this resource",
         "Report to local authorities if you've already engaged",
         "Share this verification result with others in your community",
         "Use official disaster relief channels instead">>
  ELSE IF verdict = "suspicious"
  THEN <<"Exercise extreme caution", "Verify through multiple independent sources">>
  ELSE <<"Resource appears legitimate, but always verify independently">>

\* a scorer that keeps risk_score and risk_factors on the agent between calls
analyze_evidence_kept(ev, xd) ==
  LET risk_score == CapScore(sc_analysis.risk_score + RawScore(ev, xd))
  IN [verdict |-> DetermineVerdict(risk_score),
      risk_score |-> risk_score,
      risk_factors |-> sc_analysis.risk_factors \o RiskFactors(ev, xd),
      summary |-> NoSummary,
      recommendations |-> <<>>]

\* _analyze_evidence up to the verdict; summary and recommendations follow
analyze_evidence(ev, xd) ==
  LET risk_score == CapScore(RawScore(ev, xd))
  IN [verdict |-> DetermineVerdict(risk_score),
      risk_score |-> risk_score,
      risk_factors |-> RiskFactors(ev, xd),
      summary |-> NoSummary,
      recommendations |-> <<>>]

NoAnalysis ==
  [verdict |-> None, risk_score |-> 0, risk_factors |-> <<>>,
   summary |-> NoSummary, recommendations |-> <<>>]

\* RiskGauge: the colour of the score and of the arc, the category label
\* under the score, and which of the three indicators below the arc is
\* highlighted
RiskGauge(score) ==
  [color |-> IF score > 70 THEN "#ef4444" ELSE IF score > 30 THEN "#f59e0b" ELSE "#10b981",
   colorName |-> IF score > 70 THEN "High Risk"
                 ELSE IF score > 30 THEN "Suspicious" ELSE "Safe",
   Safe |-> score < 40,
   Caution |-> score >= 40 /\ score < 70,
   Danger |-> score >= 70]

NoGauge == [color |-> None, colorName |-> None,
            Safe |-> FALSE, Caution |-> FALSE, Danger |-> FALSE]

(***************************************************************************)
(* The records the providers return (SearchMCP) and the extractor's        *)
(* result (ImageProcessor.process_image).                                  *)
(***************************************************************************)
DomainInfo(domain, age_days, failed) ==
  [domain |-> domain, registered |-> age_days # NoneAge, age_days |-> age_days,
   status |-> IF age_days # NoneAge THEN "registered" ELSE "not_registered",
   error |-> failed]

ScamResults(identifier, type, matches, risk_level, api_error) ==
  [identifier |-> identifier, type |-> type, matches |-> matches,
   risk_level |-> risk_level, api_error |-> api_error]

RegistryResults(organization, registered, api_error) ==
  [organization |-> organization, type |-> "ngo", registered |-> registered,
   api_error |-> api_error]

ExtractedData(raw_text, phone_numbers, emails, urls, domains) ==
  [raw_text |-> raw_text,
   extracted |-> [phone_numbers |-> phone_numbers, emails |-> emails,
                  urls |-> urls, domains |-> domains]]

NoResults == [identifier |-> NoId]
NoEvidence ==
  [domain_checks |-> <<>>, scam_checks |-> <<>>, registry_checks |-> <<>>,
   social_media_checks |-> <<>>]
NoExtractedData == ExtractedData(<<>>, <<>>, <<>>, <<>>, <<>>)

(***************************************************************************)
(* ImageProcessor.process_image: what the extractor can hand over for the  *)
(* flyer of request c. Phones, emails and domains are found by regex in    *)
(* all_text, so a flyer with none of its text read has none of them; URLs  *)
(* decoded from a QR code are merged into urls only.                       *)
(***************************************************************************)
Id(owner, kind, n) == <<owner, kind, n, "bare">>
DomainId(owner, n, form) == <<owner, "domain", n, form>>
OwnerOf(identifier) == identifier[1]

Urls(domains) == [k \in 1..Len(domains) |-> <<domains[k][1], "url", domains[k][3], domains[k][4]>>]

Phone(c) == Id(c, "phone", 1)
Email(c) == Id(c, "email", 1)
Org(c) == Id(c, "org", 1)
QrUrl(c) == Id(c, "url", 9)
Words == <<Word, Blank>>
WordsAndOrg(c) == <<Word, Org(c), Blank>>

\* the catalogue of flyers: nothing legible, a QR code alone, plain words,
\* an organisation's name, and contact details in growing number
AllFlyers(c) ==
  {ExtractedData(<<Blank>>, <<>>, <<>>, <<>>, <<>>),
   ExtractedData(<<Blank>>, <<>>, <<>>, <<QrUrl(c)>>, <<>>),
   ExtractedData(Words, <<>>, <<>>, <<>>, <<>>),
   ExtractedData(WordsAndOrg(c), <<>>, <<>>, <<>>, <<>>),
   ExtractedData(Words, <<Phone(c)>>, <<>>, <<>>, <<>>),
   ExtractedData(Words, <<>>, <<Email(c)>>, <<>>, <<>>),
   ExtractedData(Words, <<>>, <<>>, Urls(<<DomainId(c, 1, "bare")>>),
                 <<DomainId(c, 1, "bare")>>),
   ExtractedData(Words, <<Phone(c)>>, <<>>, Urls(<<DomainId(c, 1, "www")>>),
                 <<DomainId(c, 1, "www")>>),
   ExtractedData(WordsAndOrg(c), <<Phone(c)>>, <<>>, Urls(<<DomainId(c, 1, "bare")>>),
                 <<DomainId(c, 1, "bare")>>)}

\* list(set(...)): no string is listed twice
NoDuplicates(list) == \A j, k \in 1..Len(list) : list[j] = list[k] => j = k

(***************************************************************************)
(* FileSystemMCP: one JSON file per case; the agent keeps the path of the  *)
(* file it created last in current_case_file.                              *)
(***************************************************************************)
\* Timestamps (datetime.now()) are kept as the number of writes the file
\* has had: later writes of a file carry later timestamps.
NoFile ==
  [case_id |-> None, status |-> "absent", writes |-> 0, created_at |-> 0,
   completed_at |-> 0, evidence |-> <<>>, timeline |-> <<>>,
   initial_data |-> NoExtractedData,
   verdict |-> None, risk_score |-> 0, summary |-> NoSummary, recommendations |-> <<>>]

create_case_file(fs, case_id, initial_data) ==
  [fs EXCEPT ![case_id] =
     [NoFile EXCEPT !.case_id = case_id, !.created_at = 1, !.writes = 1,
                    !.status = "investigating", !.initial_data = initial_data,
                    !.timeline = <<"case_created">>]]

\* an entry put in front of the evidence list instead of behind it
log_evidence_first(fs, file, evidence_type, evidence_data, source) ==
  [fs EXCEPT ![file].evidence =
               <<[timestamp |-> fs[file].writes + 1, type |-> evidence_type,
                  source |-> source, data |-> evidence_data]>> \o @,
             ![file].timeline = <<evidence_type>> \o @,
             ![file].writes = @ + 1]

\* the file rewritten with the new entry only: what was on file is dropped
log_evidence_rewrite(fs, file, evidence_type, evidence_data, source) ==
  [fs EXCEPT ![file].evidence =
               <<[timestamp |-> fs[file].writes + 1, type |-> evidence_type,
                  source |-> source, data |-> evidence_data]>>,
             ![file].timeline = Append(@, evidence_type),
             ![file].writes = @ + 1]

log_evidence(fs, file, evidence_type, evidence_data, source) ==
  [fs EXCEPT ![file].evidence =
               Append(@, [timestamp |-> fs[file].writes + 1, type |-> evidence_type,
                          source |-> source, data |-> evidence_data]),
             ![file].timeline = Append(@, evidence_type),
             ![file].writes = @ + 1]

finalize_case(fs, file, verdict, risk_score, summary, recommendations) ==
  [fs EXCEPT ![file].status = "completed",
             ![file].completed_at = fs[file].writes + 1,
             ![file].verdict = verdict,
             ![file].risk_score = risk_score,
             ![file].summary = summary,
             ![file].recommendations = recommendations,
             ![file].writes = @ + 1]

(***************************************************************************)
(* SearchMCP: the three provider checks.                                   *)
(***************************************************************************)
\* _clean_domain: protocol, leading www. and path removed, lower-cased
clean_domain(domain) == <<domain[1], domain[2], domain[3], "bare">>

\* the whois answer: a creation date that many days back, or none
WhoisAnswers == {10}

check_domain_age(domain, creation_age) ==
  DomainInfo(clean_domain(domain), creation_age, FALSE)

\* whois.whois raised: the provider contract's typed error
check_domain_age_failed(domain) ==
  DomainInfo(clean_domain(domain), NoneAge, TRUE)

\* the suspicious_patterns found in the identifier, in list order
PatternHits == {<<>>}

\* the part of check_scam_database before the API call
scam_pattern_match(identifier, identifier_type, hits) ==
  ScamResults(identifier, identifier_type, hits,
              IF hits # <<>> THEN "high" ELSE "unknown", FALSE)

\* what the scam database API can answer: a JSON object whose keys
\* overwrite those of results, or no answer at all (status 0)
NoUpdate == [risk_level |-> None, matches |-> <<None>>]
ScamApiAnswers ==
  {[status |-> 200, json |-> [risk_level |-> "low", matches |-> <<"reported">>]],
   [status |-> 0, json |-> NoUpdate]}

\* results.update(api_results)
Update(results_, json) ==
  [results_ EXCEPT !.risk_level = IF json.risk_level # None THEN json.risk_level ELSE @,
                   !.matches = IF json.matches # <<None>> THEN json.matches ELSE @]

\* an API call without its except clause: the exception leaves the check
api_raise(results_) ==
  [raised |-> TRUE, results |-> results_]

\* the except clause of the API call: the error is kept in the results
api_error(results_) ==
  [raised |-> FALSE, results |-> [results_ EXCEPT !.api_error = TRUE]]

\* the part of check_scam_database after the API call was awaited;
\* status 0 stands for the client raising (timeout, connection error)
scam_api_call(results_, answer) ==
  IF answer.status = 0 THEN api_error(results_)
  ELSE IF answer.status = 200
       THEN [raised |-> FALSE, results |-> Update(results_, answer.json)]
       ELSE [raised |-> FALSE, results |-> results_]

RegistryApiAnswers ==
  {[status |-> 200, registered |-> TRUE],
   [status |-> 0, registered |-> FALSE]}

registry_defaults(organization_name) == RegistryResults(organization_name, FALSE, FALSE)

\* the registry call without its except clause
registry_api_call_unguarded(results_, answer) ==
  IF answer.status = 0 THEN api_raise(results_)
  ELSE IF answer.status = 200
       THEN [raised |-> FALSE,
             results |-> [results_ EXCEPT !.registered = answer.registered]]
       ELSE [raised |-> FALSE, results |-> results_]

registry_api_call(results_, answer) ==
  IF answer.status = 0 THEN api_error(results_)
  ELSE IF answer.status = 200
       THEN [raised |-> FALSE,
             results |-> [results_ EXCEPT !.registered = answer.registered]]
       ELSE [raised |-> FALSE, results |-> results_]

(***************************************************************************)
(* ForensicAgent._gather_evidence: the checks its loops make, in order.    *)
(***************************************************************************)
Check(kind, identifier, type) == [kind |-> kind, identifier |-> identifier, type |-> type]

DomainChecks(domain) ==
  <<Check("domain_age", domain, "domain"), Check("scam", domain, "domain")>>
PhoneChecks(phone) == <<Check("scam", phone, "phone")>>
EmailChecks(email) == <<Check("scam", email, "email")>>

\* _extract_organization_name: the organisation named in the text, if any
extract_organization_name(raw_text) ==
  LET orgs == SelectSeq(raw_text, LAMBDA t : t[2] = "org")
  IN IF orgs = <<>> THEN NoId ELSE Head(orgs)

\* the registry check made without looking whether a name was found
OrgChecksAlways(org_name) == <<Check("registry", org_name, "ngo")>>

OrgChecks(org_name) ==
  IF org_name # NoId THEN <<Check("registry", org_name, "ngo")>> ELSE <<>>

Plan(xd) ==
  Concat([k \in 1..Len(xd.extracted.domains) |-> DomainChecks(xd.extracted.domains[k])])
  \o Concat([k \in 1..Len(xd.extracted.phone_numbers) |-> PhoneChecks(xd.extracted.phone_numbers[k])])
  \o Concat([k \in 1..Len(xd.extracted.emails) |-> EmailChecks(xd.extracted.emails[k])])
  \o OrgChecks(extract_organization_name(xd.raw_text))

\* the flyers of the model: those that need at most MaxChecks checks
Flyers(c) ==
  {xd \in AllFlyers(c) :
     /\ NoDuplicates(xd.extracted.domains)
     /\ Len(Plan(xd)) <= MaxChecks}

(***************************************************************************)
(* The engine: api.py serves every /verify request with the one module     *)
(* level ForensicAgent. Requests are coroutines of one event loop: a       *)
(* coroutine runs until it awaits an HTTP call (the scam database and the  *)
(* registry API) and only then may another one run.                        *)
(***************************************************************************)
EngineInit ==
  /\ files = [c \in Cases |-> NoFile]
  /\ current_case_file = None
  /\ running = None
  /\ pc = [c \in Cases |-> "received"]
  /\ extracted_data = [c \in Cases |-> NoExtractedData]
  /\ i = [c \in Cases |-> 1]
  /\ results = [c \in Cases |-> NoResults]
  /\ evidence = [c \in Cases |-> NoEvidence]
  /\ analysis = [c \in Cases |-> NoAnalysis]
  /\ report = [c \in Cases |-> NoFile]
  /\ error = [c \in Cases |-> None]
  /\ config \in [scam_database_url : BOOLEAN, government_registry_url : BOOLEAN]
  /\ expired = [c \in Cases |-> FALSE]

EngineIdle ==
  /\ files = [c \in Cases |-> NoFile]
  /\ current_case_file = None
  /\ running = None
  /\ pc = [c \in Cases |-> "done"]
  /\ extracted_data = [c \in Cases |-> NoExtractedData]
  /\ i = [c \in Cases |-> 1]
  /\ results = [c \in Cases |-> NoResults]
  /\ evidence = [c \in Cases |-> NoEvidence]
  /\ analysis = [c \in Cases |-> NoAnalysis]
  /\ report = [c \in Cases |-> NoFile]
  /\ error = [c \in Cases |-> None]
  /\ config = [scam_database_url |-> FALSE, government_registry_url |-> FALSE]
  /\ expired = [c \in Cases |-> FALSE]

\* investigate is left, by return or by exception: its locals are gone
Return(c) ==
  /\ extracted_data' = [extracted_data EXCEPT ![c] = NoExtractedData]
  /\ i' = [i EXCEPT ![c] = 1]
  /\ results' = [results EXCEPT ![c] = NoResults]
  /\ evidence' = [evidence EXCEPT ![c] = NoEvidence]
  /\ analysis' = [analysis EXCEPT ![c] = NoAnalysis]

\* the except clause of investigate: the store failed, the case is over
StoreError(c) ==
  /\ pc' = [pc EXCEPT ![c] = "failed"]
  /\ error' = [error EXCEPT ![c] = "StoreError"]
  /\ running' = None
  /\ Return(c)

\* an exception of a provider that nothing caught reaches investigate
ProviderError(c) ==
  /\ pc' = [pc EXCEPT ![c] = "failed"]
  /\ error' = [error EXCEPT ![c] = "ProviderError"]
  /\ running' = None
  /\ Return(c)

\* investigate, steps 1 and 2: process_image, then create_case_file
Investigate(c) ==
  /\ running = None
  /\ pc[c] = "received"
  /\ c # First => pc[First] # "received"
  /\ \E xd \in Flyers(c), store_ok \in BOOLEAN :
       IF store_ok
       THEN /\ extracted_data' = [extracted_data EXCEPT ![c] = xd]
            /\ files' = create_case_file(files, c, xd)
            /\ current_case_file' = c
            /\ pc' = [pc EXCEPT ![c] = "gathering"]
            /\ running' = c
            /\ UNCHANGED <<i, results, evidence, analysis, error>>
       ELSE /\ StoreError(c)
            /\ UNCHANGED storeVars
  /\ UNCHANGED <<report, config>>

CurrentCheck(c) == Plan(extracted_data[c])[i[c]]

Gathering(c, kind) ==
  /\ running = c
  /\ pc[c] = "gathering"
  /\ i[c] <= Len(Plan(extracted_data[c]))
  /\ CurrentCheck(c).kind = kind

\* evidence[list].append(data); self.filesystem_mcp.log_evidence(...)
Settle(c, list, evidence_type, source, data) ==
  /\ \E store_ok \in BOOLEAN :
       IF store_ok
       THEN /\ evidence' = [evidence EXCEPT ![c][list] = Append(@, data)]
            /\ files' = log_evidence(files, current_case_file, evidence_type, data, source)
            /\ results' = [results EXCEPT ![c] = NoResults]
            /\ i' = [i EXCEPT ![c] = @ + 1]
            /\ pc' = [pc EXCEPT ![c] = "gathering"]
            /\ running' = c
            /\ UNCHANGED <<current_case_file, extracted_data, analysis, error>>
       ELSE /\ StoreError(c)
            /\ UNCHANGED storeVars
  /\ UNCHANGED <<report, config>>

\* the domain age check of one domain: whois.whois does not await
DomainAgeCheck(c) ==
  /\ Gathering(c, "domain_age")
  /\ \/ \E creation_age \in WhoisAnswers :
          Settle(c, "domain_checks", "domain_age_check", "whois",
                 check_domain_age(CurrentCheck(c).identifier, creation_age))
     \/ Settle(c, "domain_checks", "domain_age_check", "whois",
               check_domain_age_failed(CurrentCheck(c).identifier))

\* a scam database check up to its API call: the patterns are matched and,
\* with SCAM_DATABASE_URL set, the coroutine awaits the HTTP client
ScamCheck(c) ==
  /\ Gathering(c, "scam")
  /\ \E hits \in PatternHits :
       LET results_ == scam_pattern_match(CurrentCheck(c).identifier,
                                          CurrentCheck(c).type, hits)
       IN IF config.scam_database_url
          THEN /\ results' = [results EXCEPT ![c] = results_]
               /\ pc' = [pc EXCEPT ![c] = "await_scam"]
               /\ running' = None
               /\ UNCHANGED <<storeVars, extracted_data, i, evidence, analysis,
                              report, error, config>>
          ELSE Settle(c, "scam_checks", "scam_database_check", "scam_database", results_)

\* an HTTP client without a timeout whose call never comes back
ScamNoResponse(c) ==
  /\ running = None
  /\ pc[c] = "await_scam"
  /\ FALSE
  /\ UNCHANGED vars

\* the HTTP client returns or raises: the check settles
ScamResponse(c) ==
  /\ running = None
  /\ pc[c] = "await_scam"
  /\ \E answer \in ScamApiAnswers :
       LET after == scam_api_call(results[c], answer)
       IN IF after.raised
          THEN /\ ProviderError(c)
               /\ UNCHANGED <<storeVars, report, config>>
          ELSE Settle(c, "scam_checks", "scam_database_check", "scam_database",
                      after.results)

RegistryCheck(c) ==
  /\ Gathering(c, "registry")
  /\ LET results_ == registry_defaults(CurrentCheck(c).identifier)
     IN IF config.government_registry_url
        THEN /\ results' = [results EXCEPT ![c] = results_]
             /\ pc' = [pc EXCEPT ![c] = "await_registry"]
             /\ running' = None
             /\ UNCHANGED <<storeVars, extracted_data, i, evidence, analysis,
                            report, error, config>>
        ELSE Settle(c, "registry_checks", "registry_check", "government_registry",
                    results_)

RegistryResponse(c) ==
  /\ running = None
  /\ pc[c] = "await_registry"
  /\ \E answer \in RegistryApiAnswers :
       LET after == registry_api_call(results[c], answer)
       IN IF after.raised
          THEN /\ ProviderError(c)
               /\ UNCHANGED <<storeVars, report, config>>
          ELSE Settle(c, "registry_checks", "registry_check", "government_registry",
                      after.results)

\* _gather_evidence returns: every loop is through
GatherReturn(c) ==
  /\ running = c
  /\ pc[c] = "gathering"
  /\ i[c] > Len(Plan(extracted_data[c]))
  /\ pc' = [pc EXCEPT ![c] = "scoring"]
  /\ UNCHANGED <<storeVars, running, extracted_data, i, results, evidence, analysis,
                 report, error, config>>

\* _analyze_evidence up to the verdict
Score(c) ==
  /\ running = c
  /\ pc[c] = "scoring"
  /\ analysis' = [analysis EXCEPT ![c] =
                    analyze_evidence(evidence[c], extracted_data[c])]
  /\ pc' = [pc EXCEPT ![c] = "narrating"]
  /\ UNCHANGED <<storeVars, running, extracted_data, i, results, evidence,
                 report, error, config>>

\* _analyze_evidence from the verdict on: summary and recommendations
Narrate(c) ==
  /\ running = c
  /\ pc[c] = "narrating"
  /\ \E llm \in LlmOutcomes :
       analysis' = [analysis EXCEPT
                      ![c].summary =
                         generate_summary(evidence[c], analysis[c].risk_factors,
                                          analysis[c].verdict, llm),
                      ![c].recommendations =
                         generate_recommendations(analysis[c].verdict,
                                                  analysis[c].risk_score,
                                                  analysis[c].risk_factors)]
  /\ pc' = [pc EXCEPT ![c] = "finalizing"]
  /\ UNCHANGED <<storeVars, running, extracted_data, i, results, evidence,
                 report, error, config>>

\* investigate, step 5: finalize_case, and the report goes to the caller
Finalize(c) ==
  /\ running = c
  /\ pc[c] = "finalizing"
  /\ \E store_ok \in BOOLEAN :
       IF store_ok
       THEN /\ files' = finalize_case(files, current_case_file, analysis[c].verdict,
                                      analysis[c].risk_score, analysis[c].summary,
                                      analysis[c].recommendations)
            /\ report' = [report EXCEPT ![c] = files'[current_case_file]]
            /\ pc' = [pc EXCEPT ![c] = "done"]
            /\ running' = None
            /\ Return(c)
            /\ UNCHANGED <<current_case_file, error>>
       ELSE /\ StoreError(c)
            /\ UNCHANGED <<storeVars, report>>
  /\ UNCHANGED config

HarnessIdle ==
  /\ sc_phase = "off"
  /\ sc_evidence = NoEvidence
  /\ sc_extracted = NoExtractedData
  /\ sc_analysis = NoAnalysis
  /\ sc_llm = NoLlm
  /\ v_score = 0
  /\ v_verdict = None
  /\ gauge = NoGauge

(***************************************************************************)
(* The browser clients. services/geminiService.ts (analyzeFlyer,           *)
(* verifyTextClaim) serves the root App.tsx, services/apiService.ts        *)
(* (verifyFlyer) the App.tsx of frontend/. A submission is a promise: it   *)
(* settles in a later task, and the user may act in between.               *)
(***************************************************************************)
\* a numeric field that is undefined
Missing == -1

VerificationResult(verdict, riskScore, summary) ==
  [verdict |-> verdict, riskScore |-> riskScore, summary |-> summary]

NoVerificationResult == VerificationResult(None, Missing, None)

\* a || b on strings and on numbers: undefined, '' and 0 are falsy
OrElse(a, b) == IF a = None \/ a = "" THEN b ELSE a
NumOrElse(a, b) == IF a = Missing \/ a = 0 THEN b ELSE a

\* how a service call ends for the handler that awaits it
Returned(result) == [kind |-> "returned", result |-> result, message |-> None]
Thrown(message) == [kind |-> "thrown", result |-> NoVerificationResult, message |-> message]
NoOutcome == [kind |-> "pending", result |-> NoVerificationResult, message |-> None]

\* the JSON object the model's text parses to; None and Missing are fields
\* the text leaves out
Data(verdict, riskScore, summary) ==
  [verdict |-> verdict, riskScore |-> riskScore, summary |-> summary]
EmptyObject == Data(None, Missing, None)

\* what can happen to a Gemini call: API_KEY is not set, generateContent
\* rejects, its text is no JSON, or its text is a JSON object
GeminiAnswers ==
  {[kind |-> k, data |-> EmptyObject] : k \in {"no_api_key", "rejects", "not_json"}}
  \cup {[kind |-> "json", data |-> Data(v, n, None)] :
          v \in {None, "SAFE", "SCAM"}, n \in {Missing, 0, 85}}

\* geminiService.ts, verifyTextClaim
verifyTextClaim(answer) ==
  IF answer.kind = "no_api_key"
  THEN Thrown("API_KEY environment variable is missing.")
  ELSE IF answer.kind = "rejects"
  THEN Returned(VerificationResult("SAFE", 0,
                  "Unable to verify automatically due to connection error."))
  ELSE LET data == IF answer.kind = "json" THEN answer.data ELSE EmptyObject
       IN Returned(VerificationResult(OrElse(data.verdict, "SAFE"),
                                      NumOrElse(data.riskScore, 0),
                                      OrElse(data.summary, "Verified news source.")))

\* geminiService.ts, analyzeFlyer
analyzeFlyer(answer) ==
  IF answer.kind = "no_api_key"
  THEN Thrown("API_KEY environment variable is missing.")
  ELSE IF answer.kind = "rejects"
  THEN Thrown("fetch failed")
  ELSE IF answer.kind = "not_json"
  THEN Thrown("Analysis failed to produce structured data.")
  ELSE Returned(VerificationResult(OrElse(answer.data.verdict, "SUSPICIOUS"),
                                   NumOrElse(answer.data.riskScore, 0),
                                   OrElse(answer.data.summary, "No summary provided.")))

\* what can happen to the POST /verify: a 2xx response with the report as
\* its body, an error response with or without a detail, no response, or an
\* error before the request was sent, with or without a message
BackendAnswers ==
  {[kind |-> "ok", data |-> Data(v, Missing, "report"), text |-> None] :
     v \in {"safe", "suspicious", "scam"}}
  \cup {[kind |-> "response", data |-> EmptyObject, text |-> d] :
          d \in {None, "File must be an image"}}
  \cup {[kind |-> "request", data |-> EmptyObject, text |-> None]}
  \cup {[kind |-> "setup", data |-> EmptyObject, text |-> m] : m \in {None, "Network Error"}}

\* apiService.ts, verifyFlyer
verifyFlyer(answer) ==
  IF answer.kind = "ok" THEN Returned(answer.data)
  ELSE IF answer.kind = "response"
  THEN Thrown(OrElse(answer.text, "Verification failed"))
  ELSE IF answer.kind = "request"
  THEN Thrown("Unable to connect to server. Please ensure the backend is running.")
  ELSE Thrown(OrElse(answer.text, "An unexpected error occurred"))

\* AnalysisState; a field that is not set holds None, imagePreview the
\* number of the submission whose file it shows
AnalysisState(status, progressStep, error_, result, imagePreview) ==
  [status |-> status, progressStep |-> progressStep, error |-> error_,
   result |-> result, imagePreview |-> imagePreview]

IdleState == AnalysisState("idle", "", None, NoVerificationResult, 0)

NoCall == [op |-> None, at |-> "unused", kind |-> None, outcome |-> NoOutcome]

UiIdle ==
  /\ app = None
  /\ state = IdleState
  /\ lastResult = NoVerificationResult
  /\ calls = [k \in 1..MaxCalls |-> NoCall]

UiInit ==
  /\ app \in {"root", "frontend"}
  /\ state = IdleState
  /\ lastResult = NoVerificationResult
  /\ calls = [k \in 1..MaxCalls |-> NoCall]
  /\ EngineIdle
  /\ HarnessIdle

\* the submission a handler is about to make
NextCall(k) ==
  /\ calls[k].at = "unused"
  /\ \A j \in 1..(k - 1) : calls[j].at # "unused"

\* the then-branch of a handler: setState to complete
Complete(result, imagePreview) ==
  AnalysisState("complete", "Analysis Complete", None, result, imagePreview)

\* the catch of a handler: setState(prev => ({...prev, status: 'error', error}))
Failed(prev, message) ==
  [prev EXCEPT !.status = "error",
               !.error = OrElse(message, "An unexpected error occurred during analysis.")]

\* a handler's await is over: the call is settled and the state set
Settles(k, kind, outcome, imagePreview) ==
  /\ calls' = [calls EXCEPT ![k].at = "settled", ![k].kind = kind, ![k].outcome = outcome]
  /\ IF outcome.kind = "returned"
     THEN /\ state' = Complete(outcome.result, imagePreview)
          /\ lastResult' = IF app = "root" THEN outcome.result ELSE lastResult
     ELSE /\ state' = Failed(state, outcome.message)
          /\ UNCHANGED lastResult
  /\ UNCHANGED app

\* root App.tsx, handleFileSelect up to its first await; the file input is
\* rendered while the status is idle
HandleFileSelect(k) ==
  /\ app = "root"
  /\ state.status = "idle"
  /\ NextCall(k)
  /\ state' = AnalysisState("analyzing", "Processing Image Data...", None,
                            NoVerificationResult, k)
  /\ calls' = [calls EXCEPT ![k].op = "analyzeFlyer", ![k].at = "reading"]
  /\ UNCHANGED <<app, lastResult>>

\* fileToGenerativePart settles: the FileReader loaded the file or failed
FileRead(k) ==
  /\ calls[k].at = "reading"
  /\ \E loaded \in BOOLEAN :
       IF loaded
       THEN /\ state' = [state EXCEPT !.progressStep =
                                        "Scanning for Entities & Searching Database..."]
            /\ calls' = [calls EXCEPT ![k].at = "awaiting"]
            /\ UNCHANGED <<app, lastResult>>
       ELSE Settles(k, "reader", Thrown(None), state.imagePreview)

\* root App.tsx, handleFileSelect after analyzeFlyer settled
AnalyzeFlyerSettles(k) ==
  /\ calls[k].at = "awaiting"
  /\ calls[k].op = "analyzeFlyer"
  /\ \E answer \in GeminiAnswers :
       Settles(k, answer.kind, analyzeFlyer(answer), state.imagePreview)

\* root App.tsx, handleTextSubmit up to its await; the text box is rendered
\* while the status is idle
HandleTextSubmit(k) ==
  /\ app = "root"
  /\ state.status = "idle"
  /\ NextCall(k)
  /\ state' = AnalysisState("analyzing", "Cross-referencing with Global News Network...",
                            None, NoVerificationResult, 0)
  /\ calls' = [calls EXCEPT ![k].op = "verifyTextClaim", ![k].at = "awaiting"]
  /\ UNCHANGED <<app, lastResult>>

\* root App.tsx, handleTextSubmit after verifyTextClaim settled
VerifyTextClaimSettles(k) ==
  /\ calls[k].at = "awaiting"
  /\ calls[k].op = "verifyTextClaim"
  /\ \E answer \in GeminiAnswers :
       Settles(k, answer.kind, verifyTextClaim(answer), 0)

\* frontend App.tsx, processImage up to its await; the file input and the
\* camera are rendered while the status is idle
ProcessImage(k) ==
  /\ app = "frontend"
  /\ state.status = "idle"
  /\ NextCall(k)
  /\ state' = AnalysisState("analyzing", "Scanning for Entities & Searching Database...",
                            None, NoVerificationResult, k)
  /\ calls' = [calls EXCEPT ![k].op = "verifyFlyer", ![k].at = "awaiting"]
  /\ UNCHANGED <<app, lastResult>>

\* frontend App.tsx, processImage after verifyFlyer settled
VerifyFlyerSettles(k) ==
  /\ calls[k].at = "awaiting"
  /\ calls[k].op = "verifyFlyer"
  /\ \E answer \in BackendAnswers :
       Settles(k, answer.kind, verifyFlyer(answer), state.imagePreview)

\* handleReset of either App: the button of the error panel and of the
\* report, and in the root App the header, which is rendered in every status
HandleReset ==
  /\ \/ app = "root"
     \/ app = "frontend" /\ state.status \in {"error", "complete"}
  /\ state' = IdleState
  /\ UNCHANGED <<app, lastResult, calls>>

Init == EngineInit /\ HarnessIdle /\ UiIdle

Next ==
  \E c \in Cases :
    \/ Investigate(c) /\ UNCHANGED <<expired, scorerVars, ladderVars, uiVars>>
    \/ DomainAgeCheck(c) /\ UNCHANGED <<expired, scorerVars, ladderVars, uiVars>>
    \/ ScamCheck(c) /\ UNCHANGED <<expired, scorerVars, ladderVars, uiVars>>
    \/ ScamResponse(c) /\ UNCHANGED <<expired, scorerVars, ladderVars, uiVars>>
    \/ RegistryCheck(c) /\ UNCHANGED <<expired, scorerVars, ladderVars, uiVars>>
    \/ RegistryResponse(c) /\ UNCHANGED <<expired, scorerVars, ladderVars, uiVars>>
    \/ GatherReturn(c) /\ UNCHANGED <<expired, scorerVars, ladderVars, uiVars>>
    \/ Score(c) /\ UNCHANGED <<expired, scorerVars, ladderVars, uiVars>>
    \/ Narrate(c) /\ UNCHANGED <<expired, scorerVars, ladderVars, uiVars>>
    \/ Finalize(c) /\ UNCHANGED <<expired, scorerVars, ladderVars, uiVars>>

Spec == Init /\ [][Next]_vars

(***************************************************************************)
(* One request and the clock. investigate takes start_time when it begins  *)
(* and reads the clock again only for processing_time_seconds, after       *)
(* finalize_case; MAX_PROCESSING_TIME is a setting of config.py that no    *)
(* step of investigate looks at.                                           *)
(***************************************************************************)
BudgetInit ==
  /\ Init
  /\ config.scam_database_url

\* MAX_PROCESSING_TIME seconds have gone by since the start_time of c
BudgetExpires(c) ==
  /\ pc[c] \notin {"received", "done", "failed"}
  /\ ~expired[c]
  /\ expired' = [expired EXCEPT ![c] = TRUE]
  /\ UNCHANGED <<files, current_case_file, running, caseVars, config,
                 scorerVars, ladderVars, uiVars>>

BudgetNext ==
  \/ Next
  \/ \E c \in Cases : BudgetExpires(c)

SpecBudget == BudgetInit /\ [][BudgetNext]_vars

(***************************************************************************)
(* Scorer harness: _analyze_evidence applied to drawn evidence.            *)
(***************************************************************************)
AgeSamples == {NoneAge, 29, 30, 364, 365}
SampleDomain == Id("S", "domain", 1)
SamplePhone == Id("S", "phone", 1)
SampleOrg == Id("S", "org", 1)
SampleUrl == Id("S", "url", 1)

DomainCheckSamples == {DomainInfo(SampleDomain, a, FALSE) : a \in AgeSamples}
ScamCheckSamples ==
  {ScamResults(SamplePhone, "phone", m, r, FALSE) :
     m \in {<<>>, <<"scam">>}, r \in {"high", "unknown"}}
RegistryCheckSamples ==
  {RegistryResults(SampleOrg, TRUE, FALSE), RegistryResults(SampleOrg, FALSE, TRUE)}

EvidenceSamples ==
  [domain_checks : SeqsUpTo(DomainCheckSamples, MaxDomainChecks),
   scam_checks : SeqsUpTo(ScamCheckSamples, MaxScamChecks),
   registry_checks : SeqsUpTo(RegistryCheckSamples, MaxRegistryChecks),
   social_media_checks : {<<>>}]

\* nothing legible, a QR code alone, words without contacts, words and a phone
ExtractedSamples ==
  {ExtractedData(<<Blank>>, <<>>, <<>>, <<>>, <<>>),
   ExtractedData(<<Blank>>, <<>>, <<>>, <<SampleUrl>>, <<>>),
   ExtractedData(Words, <<>>, <<>>, <<>>, <<>>),
   ExtractedData(Words, <<SamplePhone>>, <<>>, <<>>, <<>>)}

ScorerInit ==
  /\ sc_phase = "input"
  /\ sc_evidence \in EvidenceSamples
  /\ sc_extracted \in ExtractedSamples
  /\ sc_analysis = NoAnalysis
  /\ sc_llm = NoLlm
  /\ v_score = 0
  /\ v_verdict = None
  /\ gauge = NoGauge
  /\ EngineIdle
  /\ UiIdle

\* analysis = await self._analyze_evidence(evidence, extracted_data)
ScoreSample ==
  /\ sc_phase = "input"
  /\ sc_analysis' = analyze_evidence(sc_evidence, sc_extracted)
  /\ sc_phase' = "scored"
  /\ UNCHANGED <<sc_evidence, sc_extracted, sc_llm, ladderVars, engineVars, uiVars>>

\* the same call made once more on the same evidence and extracted data
ScoreAgain ==
  /\ sc_phase = "scored"
  /\ sc_analysis' = analyze_evidence(sc_evidence, sc_extracted)
  /\ sc_phase' = "rescored"
  /\ UNCHANGED <<sc_evidence, sc_extracted, sc_llm, ladderVars, engineVars, uiVars>>

ScorerNext ==
  \/ ScoreSample
  \/ ScoreAgain

SpecScorer == ScorerInit /\ [][ScorerNext]_vars

(***************************************************************************)
(* Narrator harness: _generate_summary applied to the analysis of drawn    *)
(* evidence, for every combination of what its two providers can do.       *)
(***************************************************************************)
NarratorInit ==
  /\ sc_phase = "scored"
  /\ sc_evidence \in {ev \in EvidenceSamples : Len(ev.domain_checks) <= 1}
  /\ sc_extracted = ExtractedData(Words, <<SamplePhone>>, <<>>, <<>>, <<>>)
  /\ sc_analysis = analyze_evidence(sc_evidence, sc_extracted)
  /\ sc_llm \in AllLlmOutcomes
  /\ v_score = 0
  /\ v_verdict = None
  /\ gauge = NoGauge
  /\ EngineIdle
  /\ UiIdle

\* _analyze_evidence from the verdict on: summary and recommendations
NarrateSample ==
  /\ sc_phase = "scored"
  /\ sc_analysis' = [sc_analysis EXCEPT
                       !.summary = generate_summary(sc_evidence, sc_analysis.risk_factors,
                                                    sc_analysis.verdict, sc_llm),
                       !.recommendations =
                          generate_recommendations(sc_analysis.verdict,
                                                   sc_analysis.risk_score,
                                                   sc_analysis.risk_factors)]
  /\ sc_phase' = "narrated"
  /\ UNCHANGED <<sc_evidence, sc_extracted, sc_llm, ladderVars, engineVars, uiVars>>

SpecNarrator == NarratorInit /\ [][NarrateSample]_vars

(***************************************************************************)
(* Gatherer harness: the URLs written on a flyer go through                *)
(* _extract_contact_details, the result through _gather_evidence (no API   *)
(* URL configured, every domain ten days old) and the evidence through     *)
(* _analyze_evidence.                                                      *)
(***************************************************************************)
\* the ways one domain can be written in a URL: as it is, with a leading
\* www., in upper case
UrlForms == {"bare", "www", "upper"}
UrlSamples == {<<"S", "url", n, f>> : n \in 1..2, f \in UrlForms}

\* urlparse(url).netloc
Netloc(url) == <<url[1], "domain", url[3], url[4]>>

\* list(set(l)): each string once; the order of a set is not fixed, the
\* order of first occurrence stands for it
RECURSIVE ListSet(_)
ListSet(l) ==
  IF l = <<>> THEN <<>>
  ELSE LET front == ListSet(SubSeq(l, 1, Len(l) - 1))
       IN IF \E k \in 1..Len(front) : front[k] = l[Len(l)]
          THEN front ELSE Append(front, l[Len(l)])

\* _extract_contact_details on a text with these URLs and no phone or email
extract_contact_details(urls) ==
  ExtractedData(Words, <<>>, <<>>, ListSet(urls),
                ListSet([k \in 1..Len(urls) |-> Netloc(urls[k])]))

\* _gather_evidence when neither API URL is set, whois knowing every domain
\* as ten days old and no suspicious pattern matching
gather_evidence(xd) ==
  LET x == xd.extracted
      org == extract_organization_name(xd.raw_text)
  IN [domain_checks |-> [k \in 1..Len(x.domains) |-> check_domain_age(x.domains[k], 10)],
      scam_checks |->
        [k \in 1..Len(x.domains) |-> scam_pattern_match(x.domains[k], "domain", <<>>)]
        \o [k \in 1..Len(x.phone_numbers) |->
              scam_pattern_match(x.phone_numbers[k], "phone", <<>>)]
        \o [k \in 1..Len(x.emails) |-> scam_pattern_match(x.emails[k], "email", <<>>)],
      registry_checks |-> IF org # NoId THEN <<registry_defaults(org)>> ELSE <<>>,
      social_media_checks |-> <<>>]

\* sc_extracted holds the URLs of the text until the extractor has run
GatherInit ==
  /\ sc_phase = "text"
  /\ \E urls \in SeqsUpTo(UrlSamples, MaxUrls) :
       sc_extracted = ExtractedData(Words, <<>>, <<>>, urls, <<>>)
  /\ sc_evidence = NoEvidence
  /\ sc_analysis = NoAnalysis
  /\ sc_llm = NoLlm
  /\ v_score = 0
  /\ v_verdict = None
  /\ gauge = NoGauge
  /\ EngineIdle
  /\ UiIdle

ExtractSample ==
  /\ sc_phase = "text"
  /\ sc_extracted' = extract_contact_details(sc_extracted.extracted.urls)
  /\ sc_phase' = "extracted"
  /\ UNCHANGED <<sc_evidence, sc_analysis, sc_llm, ladderVars, engineVars, uiVars>>

GatherSample ==
  /\ sc_phase = "extracted"
  /\ sc_evidence' = gather_evidence(sc_extracted)
  /\ sc_phase' = "input"
  /\ UNCHANGED <<sc_extracted, sc_analysis, sc_llm, ladderVars, engineVars, uiVars>>

GatherNext ==
  \/ ExtractSample
  \/ GatherSample
  \/ ScoreSample

SpecGather == GatherInit /\ [][GatherNext]_vars

(***************************************************************************)
(* Verdict ladder harness: the if/elif/else that follows the cap, applied  *)
(* to every score the cap can let through.                                 *)
(***************************************************************************)
LadderInit ==
  /\ v_score \in 0..ScoreCap
  /\ v_verdict = None
  /\ gauge = NoGauge
  /\ sc_phase = "off"
  /\ sc_evidence = NoEvidence
  /\ sc_extracted = NoExtractedData
  /\ sc_analysis = NoAnalysis
  /\ sc_llm = NoLlm
  /\ EngineIdle
  /\ UiIdle

Verdict ==
  /\ v_verdict = None
  /\ v_verdict' = DetermineVerdict(CapScore(v_score))
  /\ UNCHANGED <<v_score, gauge, scorerVars, engineVars, uiVars>>

SpecLadder == LadderInit /\ [][Verdict]_vars

(***************************************************************************)
(* Gauge harness: RiskGauge rendered for every score of the scale.         *)
(***************************************************************************)
\* <RiskGauge score={result.riskScore} />
RenderGauge ==
  /\ gauge = NoGauge
  /\ gauge' = RiskGauge(v_score)
  /\ UNCHANGED <<v_score, v_verdict, scorerVars, engineVars, uiVars>>

SpecGauge == LadderInit /\ [][RenderGauge]_vars

(***************************************************************************)
(* The browser on its own: the user submits, resets, and promises settle.  *)
(***************************************************************************)
UiNext ==
  \/ \E k \in 1..MaxCalls :
       \/ HandleFileSelect(k) /\ UNCHANGED <<engineVars, scorerVars, ladderVars>>
       \/ FileRead(k) /\ UNCHANGED <<engineVars, scorerVars, ladderVars>>
       \/ AnalyzeFlyerSettles(k) /\ UNCHANGED <<engineVars, scorerVars, ladderVars>>
       \/ HandleTextSubmit(k) /\ UNCHANGED <<engineVars, scorerVars, ladderVars>>
       \/ VerifyTextClaimSettles(k) /\ UNCHANGED <<engineVars, scorerVars, ladderVars>>
       \/ ProcessImage(k) /\ UNCHANGED <<engineVars, scorerVars, ladderVars>>
       \/ VerifyFlyerSettles(k) /\ UNCHANGED <<engineVars, scorerVars, ladderVars>>
  \/ HandleReset /\ UNCHANGED <<engineVars, scorerVars, ladderVars>>

SpecUI == UiInit /\ [][UiNext]_vars

(***************************************************************************)
(* The case store on its own: a server process that uses FileSystemMCP     *)
(* and can stop at any point between two calls. The case files are on      *)
(* disk and outlive the process; current_case_file is a field of the       *)
(* object and starts at None again in the next process.                    *)
(***************************************************************************)
StoreInit ==
  /\ EngineIdle
  /\ HarnessIdle
  /\ UiIdle

\* what a caller can log: (evidence_type, evidence_data, source)
StoreItems ==
  {[type |-> "domain_check", data |-> DomainInfo(SampleDomain, 10, FALSE),
    source |-> "whois"],
   [type |-> "registry_check", data |-> registry_defaults(SampleOrg),
    source |-> "official_registry"]}

StoreCreate(c) ==
  /\ files[c].status = "absent"
  /\ files' = create_case_file(files, c, NoExtractedData)
  /\ current_case_file' = c

\* log_evidence with no active case raises ValueError and writes nothing
StoreAppend ==
  /\ current_case_file # None
  /\ Len(files[current_case_file].evidence) < MaxAppends
  /\ \E item \in StoreItems :
       files' = log_evidence(files, current_case_file,
                             item.type, item.data, item.source)
  /\ UNCHANGED current_case_file

StoreFinalize ==
  /\ current_case_file # None
  /\ files[current_case_file].status = "investigating"
  /\ files' = finalize_case(files, current_case_file, "safe", 0, NoSummary, <<>>)
  /\ UNCHANGED current_case_file

\* the process stops and a new one is started: FileSystemMCP.__init__ runs
\* again, the case directory is as the last completed write left it
Restart ==
  /\ current_case_file # None
  /\ current_case_file' = None
  /\ UNCHANGED files

StoreNext ==
  /\ \/ \E c \in Cases : StoreCreate(c)
     \/ StoreAppend
     \/ StoreFinalize
     \/ Restart
  /\ UNCHANGED <<running, caseVars, config, expired, scorerVars, ladderVars, uiVars>>

SpecStore == StoreInit /\ [][StoreNext]_vars

(***************************************************************************)
(* Properties of the risk scorer.                                          *)
(***************************************************************************)
\* C1: for every score s in 0..100 the verdict is scam exactly when
\* s >= 70, suspicious exactly when 40 <= s < 70 and safe exactly when
\* s < 40; so 39 is safe, 40 and 69 are suspicious and 70 is scam.
C1_VerdictThresholds ==
  v_verdict # None =>
    /\ v_score \in 0..100
    /\ (v_verdict = "scam") <=> (v_score >= 70)
    /\ (v_verdict = "suspicious") <=> (40 <= v_score /\ v_score < 70)
    /\ (v_verdict = "safe") <=> (v_score < 40)
    /\ v_score = 39 => v_verdict = "safe"
    /\ v_score = 40 => v_verdict = "suspicious"
    /\ v_score = 69 => v_verdict = "suspicious"
    /\ v_score = 70 => v_verdict = "scam"

\* the boundary value 70 was given its verdict
C1_Witness == v_score = 70 /\ v_verdict = "scam"

\* C2: whatever the evidence and the no-data flag, the returned score is
\* within 0..100, and it is exactly 100 whenever the raw contributions sum
\* to more than 100.
C2_ScoreClamped ==
  sc_phase = "scored" =>
    /\ sc_analysis.risk_score \in 0..100
    /\ RawScore(sc_evidence, sc_extracted) > 100 => sc_analysis.risk_score = 100

\* three domains younger than 30 days, a high-risk scam match and an
\* unregistered organisation were scored: 155 raw points, returned as 100
C2_Witness ==
  /\ sc_phase = "scored"
  /\ Len(sc_evidence.domain_checks) = 3
  /\ \A k \in 1..3 : sc_evidence.domain_checks[k].age_days = 29
  /\ Len(sc_evidence.scam_checks) = 1
  /\ sc_evidence.scam_checks[1].risk_level = "high"
  /\ Len(sc_evidence.registry_checks) = 1
  /\ ~sc_evidence.registry_checks[1].registered
  /\ ~NoDataExtracted(sc_extracted)
  /\ RawScore(sc_evidence, sc_extracted) = 155
  /\ sc_analysis.risk_score = 100

(***************************************************************************)
(* Properties of the engine.                                               *)
(***************************************************************************)
\* the four identifier lists of an extraction are empty
NoIdentifiers(xd) ==
  /\ xd.extracted.phone_numbers = <<>>
  /\ xd.extracted.emails = <<>>
  /\ xd.extracted.urls = <<>>
  /\ xd.extracted.domains = <<>>

\* request c takes a step of investigate
Acts(c) == pc'[c] # pc[c] \/ i'[c] # i[c]

\* the number of checks request c has settled
Settled(c) ==
  Len(evidence[c].domain_checks) + Len(evidence[c].scam_checks)
  + Len(evidence[c].registry_checks)

C4_FinalizeCompletedRejected ==
  [][\A c \in Cases :
       (/\ pc[c] = "finalizing"
        /\ pc'[c] # pc[c]
        /\ files[current_case_file].status = "completed") =>
         /\ files' = files
         /\ pc'[c] = "failed"
         /\ error'[c] = "InvalidStateError"]_vars

\* C5: a provider call that fails does not end the case: the case fails on
\* a store error only, every check of the plan has its item in the evidence
\* when gathering is over, and a domain age found next to a failed check is
\* scored.
C5_ProviderFailureAbsorbed ==
  \A c \in Cases :
    /\ pc[c] = "failed" => error[c] = "StoreError"
    /\ pc[c] # "failed" => error[c] = None
    /\ pc[c] \in {"scoring", "narrating", "finalizing"} =>
         Settled(c) = Len(Plan(extracted_data[c]))
    /\ pc[c] \in {"narrating", "finalizing"} =>
         \A k \in 1..Len(evidence[c].domain_checks) :
           evidence[c].domain_checks[k].age_days \in 0..(VeryNewDays - 1) =>
             \E j \in 1..Len(analysis[c].risk_factors) :
               analysis[c].risk_factors[j].text = "Domain is very new"

\* a case whose scam database call failed and whose domain age check
\* succeeded is completed, with both items on file
C5_Witness ==
  \E c \in Cases :
    /\ pc[c] = "done"
    /\ error[c] = None
    /\ files[c].status = "completed"
    /\ report[c] = files[c]
    /\ \E j, k \in 1..Len(files[c].evidence) :
         /\ files[c].evidence[j].type = "domain_age_check"
         /\ ~files[c].evidence[j].data.error
         /\ files[c].evidence[k].type = "scam_database_check"
         /\ files[c].evidence[k].data.api_error
         /\ files[c].evidence[k].data.identifier[1] = c

\* C7: with two requests in the engine at once, a step taken for one case
\* (its create, its appends, its finalize) changes no other case's record.
C7_CasesIsolated ==
  [][\A c, d \in Cases : (c # d /\ Acts(c)) => files'[d] = files[d]]_vars

\* the store entry type of each kind of check
EntryType(kind) ==
  IF kind = "domain_age" THEN "domain_age_check"
  ELSE IF kind = "scam" THEN "scam_database_check"
  ELSE "registry_check"

\* C8: once every check of a case has settled, the evidence on the case's
\* file holds exactly one item per check of the plan, none lost, doubled or
\* overwritten.
C8_OneItemPerCheck ==
  \A c \in Cases :
    pc[c] \in {"scoring", "narrating", "finalizing"} =>
      /\ Len(files[c].evidence) = Len(Plan(extracted_data[c]))
      /\ \A k \in 1..Len(files[c].evidence) :
           files[c].evidence[k].type = EntryType(Plan(extracted_data[c])[k].kind)

\* the request whose check a store entry belongs to
EntryOwner(entry) ==
  IF entry.type = "domain_age_check" THEN OwnerOf(entry.data.domain)
  ELSE IF entry.type = "scam_database_check" THEN OwnerOf(entry.data.identifier)
  ELSE OwnerOf(entry.data.organization)

\* the number of items of request c's checks that are on file
OnFile(c) ==
  Cardinality(UNION {{<<f, j>> : j \in {k \in 1..Len(files[f].evidence) :
                                          EntryOwner(files[f].evidence[k]) = c}} :
                     f \in Cases})

\* in every file the timestamps grow from each item to the next, and the age
\* item of a domain stands before the scam item of that domain
ArrivalOrder ==
  \A f \in Cases :
    \A j, k \in 1..Len(files[f].evidence) :
      /\ k = j + 1 => files[f].evidence[j].timestamp < files[f].evidence[k].timestamp
      /\ (/\ files[f].evidence[j].type = "domain_age_check"
          /\ files[f].evidence[k].type = "scam_database_check"
          /\ files[f].evidence[k].data.type = "domain"
          /\ clean_domain(files[f].evidence[k].data.identifier)
               = files[f].evidence[j].data.domain) => j < k

C10_TerminalImmutable ==
  [][\A f \in Cases : files[f].status = "completed" => files'[f] = files[f]]_vars

(***************************************************************************)
(* Properties of the browser clients.                                      *)
(***************************************************************************)
\* C6: a verification that fails as a whole yields no verdict: when the
\* call behind verifyFlyer, analyzeFlyer or verifyTextClaim fails (no API
\* key, the request rejects, an error response, no response), the service
\* hands its caller an error and no result carrying a verdict.
C6_FailureYieldsNoVerdict ==
  \A k \in 1..MaxCalls :
    (/\ calls[k].at = "settled"
     /\ calls[k].kind \in {"no_api_key", "rejects", "reader",
                           "response", "request", "setup"}) =>
      /\ calls[k].outcome.kind = "thrown"
      /\ calls[k].outcome.result.verdict = None


(***************************************************************************)
(* Properties of the case store across a restart of the process.           *)
(***************************************************************************)
IsPrefix(s, t) ==
  /\ Len(s) <= Len(t)
  /\ SubSeq(t, 1, Len(s)) = s

FairSpec == Init /\ [][Next]_vars /\ WF_vars(Next)

InFlight(c) == pc[c] \notin {"received", "done", "failed"}

\* C13: a case that was created reaches a terminal state: it does not stay
\* in gathering, scoring or narrating for ever; it ends finalized, or
\* failed on an error of the store
C13_CaseTerminates ==
  \A c \in Cases :
    InFlight(c) ~> \/ pc[c] = "done" /\ error[c] = None
                   \/ pc[c] = "failed" /\ error[c] = "StoreError"

\* one case was finalized after a check that waited for its provider, the
\* other failed on the store
C13_Witness ==
  \E c, d \in Cases :
    /\ pc[c] = "done"
    /\ files[c].status = "completed"
    /\ Len(files[c].evidence) >= 2
    /\ pc[d] = "failed"
    /\ error[d] = "StoreError"

(***************************************************************************)
(* Properties of the verdict objects the browser clients receive.          *)
(***************************************************************************)
Band(riskScore) ==
  IF riskScore >= ScamThreshold THEN "SCAM"
  ELSE IF riskScore >= SuspiciousThreshold THEN "SUSPICIOUS"
  ELSE "SAFE"

\* C14: every verdict object a service call hands to the presentation layer
\* (verifyFlyer's backend result, analyzeFlyer's and verifyTextClaim's
\* VerificationResult, defaults included) has a riskScore within 0..100 and
\* the verdict of that riskScore's band
C14_VerdictMatchesBand ==
  \A k \in 1..MaxCalls :
    calls[k].outcome.kind = "returned" =>
      /\ calls[k].outcome.result.riskScore \in 0..100
      /\ calls[k].outcome.result.verdict = Band(calls[k].outcome.result.riskScore)

(***************************************************************************)
(* Properties of the orchestrator's state machine.                         *)
(***************************************************************************)
\* the orchestrator state a position of investigate belongs to; creating
\* the case and starting to gather are one step of investigate
Stage(p) ==
  CASE p = "received" -> "NEW"
    [] p \in {"gathering", "await_scam", "await_registry"} -> "GATHERING"
    [] p = "scoring" -> "SCORING"
    [] p \in {"narrating", "finalizing"} -> "NARRATING"
    [] p = "done" -> "FINALIZED"
    [] p = "failed" -> "FAILED"

StageEdges ==
  {<<"NEW", "GATHERING">>, <<"GATHERING", "SCORING">>, <<"SCORING", "NARRATING">>,
   <<"NARRATING", "FINALIZED">>}
  \cup {<<s, "FAILED">> : s \in {"NEW", "GATHERING", "SCORING", "NARRATING"}}

OneStepAtATime ==
  \A c \in Cases :
    Stage(pc'[c]) # Stage(pc[c]) => <<Stage(pc[c]), Stage(pc'[c])>> \in StageEdges

\* finalize_case has been applied to the case file of c in this step
FinalizedNow(c) == files'[c].completed_at # files[c].completed_at

\* C15: the state of a case moves one step at a time along created,
\* gathering, scoring, narrating, finalized, or from a non-terminal state
\* to failed, and the finalize mutation is applied to a case exactly once,
\* when that case goes from narrating to finalized
C15_OneStepOneFinalize ==
  [][/\ OneStepAtATime
     /\ \A c \in Cases :
          /\ FinalizedNow(c) =>
               /\ Stage(pc[c]) = "NARRATING"
               /\ Stage(pc'[c]) = "FINALIZED"
               /\ files[c].status = "investigating"
          /\ (Stage(pc[c]) = "NARRATING" /\ Stage(pc'[c]) = "FINALIZED") =>
               FinalizedNow(c)]_vars

\* every check planned for the case of c has settled
AllSettled(c) == i[c] > Len(Plan(extracted_data[c]))

EntersScoring(c) == pc[c] # "scoring" /\ pc'[c] = "scoring"

Barrier ==
  \A c \in Cases : EntersScoring(c) => AllSettled(c) /\ evidence'[c] = evidence[c]

\* C16: a case enters scoring only when every dispatched check has settled
\* or when its time budget has expired; once the budget has expired the
\* unfinished checks are abandoned, and the case goes to scoring with
\* exactly the evidence appended by then
C16_BarrierOrBudget ==
  [][\A c \in Cases :
       /\ EntersScoring(c) =>
            /\ AllSettled(c) \/ expired[c]
            /\ evidence'[c] = evidence[c]
       /\ (expired[c] /\ Stage(pc[c]) = "GATHERING" /\ pc'[c] # pc[c]) =>
            /\ pc'[c] \in {"scoring", "failed"}
            /\ evidence'[c] = evidence[c]]_vars

Recommendations(verdict) == generate_recommendations(verdict, 0, <<>>)

ScamItems(ev, identifier, type) ==
  {k \in 1..Len(ev.scam_checks) :
     ev.scam_checks[k].identifier = identifier /\ ev.scam_checks[k].type = type}

OneCheckPerIdentifier(xd, ev) ==
  LET x == xd.extracted
      org == extract_organization_name(xd.raw_text)
      Orgs == IF org = NoId THEN 0 ELSE 1
  IN /\ \A k \in 1..Len(x.domains) :
          /\ Cardinality({j \in 1..Len(ev.domain_checks) :
                            ev.domain_checks[j].domain = clean_domain(x.domains[k])}) = 1
          /\ Cardinality(ScamItems(ev, x.domains[k], "domain")) = 1
     /\ \A k \in 1..Len(x.phone_numbers) :
          Cardinality(ScamItems(ev, x.phone_numbers[k], "phone")) = 1
     /\ \A k \in 1..Len(x.emails) :
          Cardinality(ScamItems(ev, x.emails[k], "email")) = 1
     /\ Cardinality({j \in 1..Len(ev.registry_checks) :
                       ev.registry_checks[j].organization = org}) = Orgs
     /\ Len(ev.domain_checks) = Len(x.domains)
     /\ Len(ev.scam_checks) = Len(x.domains) + Len(x.phone_numbers) + Len(x.emails)
     /\ Len(ev.registry_checks) = Orgs

Deduplicated(xd) ==
  /\ NoDuplicates(xd.extracted.domains)
  /\ NoDuplicates(xd.extracted.phone_numbers)
  /\ NoDuplicates(xd.extracted.emails)

\* C20: for a deduplicated identifier set the gatherer makes exactly one
\* check per identifier and provider kind and no other: a domain age and a
\* scam check per domain, a scam check per phone number and per email, a
\* registry check and a recent-update check per organisation name
C20_OneCheckPerPair ==
  \A c \in Cases :
    (pc[c] = "scoring" /\ Deduplicated(extracted_data[c])) =>
      /\ OneCheckPerIdentifier(extracted_data[c], evidence[c])
      /\ Len(evidence[c].social_media_checks) =
           Len(OrgChecks(extract_organization_name(extracted_data[c].raw_text)))

(***************************************************************************)
(* Properties of the gatherer on the identifiers of one flyer.             *)
(***************************************************************************)
\* the domains of the flyer, normalised
NormalDomains(xd) ==
  {clean_domain(xd.extracted.domains[k]) : k \in 1..Len(xd.extracted.domains)}

\* C21: identifiers that normalise to the same value (a leading www., upper
\* case) lead to one set of provider calls: no normalised domain has more
\* than one domain age item or more than one scam item in a case, and none
\* counts more than once in the score
C21_NormalisedOnce ==
  /\ sc_phase \in {"input", "scored"} =>
       /\ \A j, k \in 1..Len(sc_evidence.domain_checks) :
            sc_evidence.domain_checks[j].domain = sc_evidence.domain_checks[k].domain
              => j = k
       /\ \A j, k \in 1..Len(sc_evidence.scam_checks) :
            clean_domain(sc_evidence.scam_checks[j].identifier)
              = clean_domain(sc_evidence.scam_checks[k].identifier) => j = k
  /\ sc_phase = "scored" =>
       sc_analysis.risk_score
         = CapScore(VeryNewPoints * Cardinality(NormalDomains(sc_extracted)))

\* nothing to check on the flyer: no phone number, email, URL or domain,
\* and no organisation named in its text
EmptyIdentifierSet(xd) ==
  /\ NoIdentifiers(xd)
  /\ extract_organization_name(xd.raw_text) = NoId

\* C22: with an empty identifier set the gatherer calls no provider and
\* appends no evidence item, and the scorer treats the case as one with no
\* data: 50 points and the warning that nothing could be extracted
C22_EmptySetNoCalls ==
  \A c \in Cases :
    (InFlight(c) /\ EmptyIdentifierSet(extracted_data[c])) =>
      /\ pc[c] \notin {"await_scam", "await_registry"}
      /\ i[c] = 1
      /\ evidence[c] = NoEvidence
      /\ pc[c] \in {"narrating", "finalizing"} =>
           /\ analysis[c].risk_score = NoDataPoints
           /\ analysis[c].risk_factors = <<NoDataFactor>>

\* a flyer with words and nothing to check has been scored, its case file
\* without an evidence item
C22_Witness ==
  \E c \in Cases :
    /\ pc[c] = "narrating"
    /\ Strip(extracted_data[c].raw_text) # <<>>
    /\ EmptyIdentifierSet(extracted_data[c])
    /\ files[c].evidence = <<>>
    /\ analysis[c].verdict = "suspicious"

(***************************************************************************)
(* Properties of the scoring rules, one rule at a time.                    *)
(***************************************************************************)
\* the domain age items whose known age lies within lo..hi
AgedWithin(ev, lo, hi) ==
  {k \in 1..Len(ev.domain_checks) :
     /\ ev.domain_checks[k].age_days # NoneAge
     /\ ev.domain_checks[k].age_days \in lo..hi}

\* what the rules other than the domain age rule add
BesidesDomains(ev, xd) ==
  (IF NoDataExtracted(xd) THEN NoDataPoints ELSE 0)
  + SumSeq([k \in 1..Len(ev.scam_checks) |-> ScamPoints(ev.scam_checks[k])])
  + SumSeq([k \in 1..Len(ev.registry_checks) |-> RegistryPoints(ev.registry_checks[k])])

FactorsSaying(text) ==
  {k \in 1..Len(sc_analysis.risk_factors) : sc_analysis.risk_factors[k].text = text}

\* C23: a domain age item adds 30 when its age is under 30 days, 15 when it
\* is 30 to 364 days, nothing from 365 days on or when the age is unknown,
\* and never both; a single domain under 30 days old with no other
\* evidence gives the score 30 and the verdict safe
C23_DomainAgeBands ==
  sc_phase = "scored" =>
    LET veryNew == AgedWithin(sc_evidence, 0, 29)
        relativelyNew == AgedWithin(sc_evidence, 30, 364)
    IN /\ sc_analysis.risk_score =
            Min(100, 30 * Cardinality(veryNew) + 15 * Cardinality(relativelyNew)
                     + BesidesDomains(sc_evidence, sc_extracted))
       /\ Cardinality(FactorsSaying("Domain is very new")) = Cardinality(veryNew)
       /\ Cardinality(FactorsSaying("Domain is relatively new")) = Cardinality(relativelyNew)
       /\ (/\ Len(sc_evidence.domain_checks) = 1
           /\ Cardinality(veryNew) = 1
           /\ BesidesDomains(sc_evidence, sc_extracted) = 0) =>
             /\ sc_analysis.risk_score = 30
             /\ sc_analysis.verdict = "safe"

\* one domain of 29 days and nothing else was scored: 30, safe
C23_Witness ==
  /\ sc_phase = "scored"
  /\ Len(sc_evidence.domain_checks) = 1
  /\ sc_evidence.domain_checks[1].age_days = 29
  /\ sc_evidence.scam_checks = <<>>
  /\ sc_evidence.registry_checks = <<>>
  /\ ~NoDataExtracted(sc_extracted)
  /\ sc_analysis.risk_score = 30
  /\ sc_analysis.verdict = "safe"

\* the scam items classified high risk, and those not so classified that
\* list a pattern
HighRisk(ev) ==
  {k \in 1..Len(ev.scam_checks) : ev.scam_checks[k].risk_level = "high"}
PatternOnly(ev) ==
  {k \in 1..Len(ev.scam_checks) :
     ev.scam_checks[k].risk_level # "high" /\ ev.scam_checks[k].matches # <<>>}

\* what the rules other than the scam rule add
BesidesScam(ev, xd) ==
  (IF NoDataExtracted(xd) THEN NoDataPoints ELSE 0)
  + SumSeq([k \in 1..Len(ev.domain_checks) |-> DomainPoints(ev.domain_checks[k])])
  + SumSeq([k \in 1..Len(ev.registry_checks) |-> RegistryPoints(ev.registry_checks[k])])

\* C24: a scam item adds 40 when it is classified high risk, with or
\* without pattern matches, 20 when it is not high risk and lists at least
\* one pattern, nothing otherwise, and never 40 and 20 together
C24_ScamMatchBands ==
  sc_phase = "scored" =>
    /\ sc_analysis.risk_score =
         Min(100, 40 * Cardinality(HighRisk(sc_evidence))
                  + 20 * Cardinality(PatternOnly(sc_evidence))
                  + BesidesScam(sc_evidence, sc_extracted))
    /\ Cardinality(FactorsSaying("High risk match in scam database"))
         = Cardinality(HighRisk(sc_evidence))
    /\ Cardinality(FactorsSaying("Suspicious patterns found"))
         = Cardinality(PatternOnly(sc_evidence))

\* one item, high risk and with a pattern listed, was scored alone: 40
C24_Witness ==
  /\ sc_phase = "scored"
  /\ Len(sc_evidence.scam_checks) = 1
  /\ sc_evidence.scam_checks[1].risk_level = "high"
  /\ sc_evidence.scam_checks[1].matches # <<>>
  /\ BesidesScam(sc_evidence, sc_extracted) = 0
  /\ sc_analysis.risk_score = 40
  /\ sc_analysis.verdict = "suspicious"

\* the registry items whose check completed and said not registered
ReportedNotRegistered(ev) ==
  {k \in 1..Len(ev.registry_checks) :
     ~ev.registry_checks[k].registered /\ ~ev.registry_checks[k].api_error}

\* what the rules other than the registry rule add
BesidesRegistry(ev, xd) ==
  (IF NoDataExtracted(xd) THEN NoDataPoints ELSE 0)
  + SumSeq([k \in 1..Len(ev.domain_checks) |-> DomainPoints(ev.domain_checks[k])])
  + SumSeq([k \in 1..Len(ev.scam_checks) |-> ScamPoints(ev.scam_checks[k])])

\* C25: the registry rule adds 25 for exactly the organisations whose
\* registry check completed and reported not registered; a registered
\* organisation and one whose check failed add nothing
C25_RegistryRule ==
  sc_phase = "scored" =>
    /\ sc_analysis.risk_score =
         Min(100, 25 * Cardinality(ReportedNotRegistered(sc_evidence))
                  + BesidesRegistry(sc_evidence, sc_extracted))
    /\ Cardinality(FactorsSaying("Organization not found in official registry"))
         = Cardinality(ReportedNotRegistered(sc_evidence))

\* the items the scorer takes as not registered
NotRegistered(ev) ==
  {k \in 1..Len(ev.registry_checks) : ~ev.registry_checks[k].registered}

\* every contribution that applies, added up
Contributions(ev, xd) ==
  (IF NoDataExtracted(xd) THEN 50 ELSE 0)
  + 30 * Cardinality(AgedWithin(ev, 0, 29))
  + 15 * Cardinality(AgedWithin(ev, 30, 364))
  + 40 * Cardinality(HighRisk(ev))
  + 20 * Cardinality(PatternOnly(ev))
  + 25 * Cardinality(NotRegistered(ev))

DomainCounts(domain_check) == DomainPoints(domain_check) > 0
ScamCounts(scam_check) == ScamPoints(scam_check) > 0
RegistryCounts(registry_check) == RegistryPoints(registry_check) > 0

DomainTexts == {"Domain is very new", "Domain is relatively new"}
ScamTexts == {"High risk match in scam database", "Suspicious patterns found"}

\* C27: the risk factors hold exactly one string per contribution that is
\* not zero, in the order of the rule groups: the no-data factor first,
\* then the domain factors, then the scam factors, then the registry
\* factors, each group in the order of its items
C27_FactorsByGroup ==
  sc_phase = "scored" =>
    LET rf == sc_analysis.risk_factors
        nd == IF NoDataExtracted(sc_extracted) THEN 1 ELSE 0
        D == SelectSeq(sc_evidence.domain_checks, DomainCounts)
        S == SelectSeq(sc_evidence.scam_checks, ScamCounts)
        R == SelectSeq(sc_evidence.registry_checks, RegistryCounts)
    IN /\ Len(rf) = nd + Len(D) + Len(S) + Len(R)
       /\ nd = 1 => rf[1].text = "WARNING: Unable to extract any contact information"
       /\ \A k \in 1..Len(D) :
            /\ rf[nd + k].text \in DomainTexts
            /\ rf[nd + k].age = D[k].age_days
       /\ \A k \in 1..Len(S) :
            /\ rf[nd + Len(D) + k].text \in ScamTexts
            /\ rf[nd + Len(D) + k].identifier = S[k].identifier
       /\ \A k \in 1..Len(R) :
            rf[nd + Len(D) + Len(S) + k].text
              = "Organization not found in official registry"

\* all four groups gave a factor, the domain group two of them around an
\* item that gave none
C27_Witness ==
  /\ sc_phase = "scored"
  /\ NoDataExtracted(sc_extracted)
  /\ Len(sc_evidence.domain_checks) = 3
  /\ sc_evidence.domain_checks[1].age_days = 364
  /\ sc_evidence.domain_checks[2].age_days = 365
  /\ sc_evidence.domain_checks[3].age_days = 29
  /\ Len(sc_analysis.risk_factors) = 5
  /\ sc_analysis.risk_factors[2].age = 364
  /\ sc_analysis.risk_factors[3].age = 29
  /\ sc_analysis.risk_factors[4].text \in ScamTexts
  /\ sc_analysis.risk_factors[5].text = "Organization not found in official registry"

\* C28: the no-data contribution of 50 is applied only when no identifier
\* of any type was extracted: a case with at least one identifier (only an
\* organisation name, only a phone number, identifiers under an empty raw
\* text) receives neither the contribution nor its risk factor
C28_NoDataOnlyWithoutIdentifiers ==
  \A c \in Cases :
    (pc[c] \in {"narrating", "finalizing"} /\ ~EmptyIdentifierSet(extracted_data[c])) =>
      /\ \A k \in 1..Len(analysis[c].risk_factors) :
           analysis[c].risk_factors[k] # NoDataFactor
      /\ analysis[c].risk_score
           = Min(100, 30 * Cardinality(AgedWithin(evidence[c], 0, 29))
                      + 15 * Cardinality(AgedWithin(evidence[c], 30, 364))
                      + 40 * Cardinality(HighRisk(evidence[c]))
                      + 20 * Cardinality(PatternOnly(evidence[c]))
                      + 25 * Cardinality(NotRegistered(evidence[c])))

\* the submissions made so far, and the latest of them
Submitted == {k \in 1..MaxCalls : calls[k].at # "unused"}
Latest == CHOOSE k \in Submitted : \A j \in Submitted : j <= k

\* C29: the analysis state reflects the most recent user action: the status
\* idle is left only by a new submission, the result shown in the status
\* complete is that of the latest submission, and the status error holds
\* no result, even when an earlier analysis settles after a reset or after
\* a later submission
C29_StateFollowsLatestAction ==
  [][/\ (state.status = "idle" /\ state'.status # "idle") =>
          \E k \in 1..MaxCalls : calls[k].at = "unused" /\ calls'[k].at # "unused"
     /\ state'.status = "complete" =>
          /\ Submitted' # {}
          /\ calls'[Latest'].at = "settled"
          /\ calls'[Latest'].outcome = Returned(state'.result)
     /\ state'.status = "error" => state'.result = NoVerificationResult]_vars

\* the band a colour, a label or an indicator of the gauge stands for
ColourBand ==
  IF gauge.color = "#10b981" THEN "safe"
  ELSE IF gauge.color = "#f59e0b" THEN "suspicious" ELSE "scam"
LabelBand ==
  IF gauge.colorName = "Safe" THEN "safe"
  ELSE IF gauge.colorName = "Suspicious" THEN "suspicious" ELSE "scam"
IndicatorBand ==
  IF gauge.Safe THEN "safe" ELSE IF gauge.Caution THEN "suspicious" ELSE "scam"

\* C30: for every score in 0..100 the colour and the category label of the
\* gauge denote the band of its highlighted indicator (Safe under 40,
\* Caution for 40..69, Danger from 70), the band of the verdict of that score
C30_GaugeBandsAgree ==
  gauge # NoGauge =>
    /\ Cardinality({b \in {"Safe", "Caution", "Danger"} : gauge[b]}) = 1
    /\ IndicatorBand = DetermineVerdict(v_score)
    /\ ColourBand = IndicatorBand
    /\ LabelBand = IndicatorBand

========================================================================
